---- MODULE Spec2Model ----
(***************************************************************************)
(* A model of facturacom/__init__.py: the API singleton (key, secret,      *)
(* mode, the shared request headers), _Resource._make_request, the record  *)
(* hydration of _Resource._initialize_instance, and the CFDI33 / Customer  *)
(* operations.                                                             *)
(*                                                                         *)
(* Python values are tagged records [t, s, d]: t is the type ("str",       *)
(* "none", "dict", "helper" for a _DictHelper, "list", "record" for a      *)
(* hydrated resource), s the text of a string, d the ordered entries       *)
(* [k, x] of a dict (insertion order, as Python keeps it) or the elements  *)
(* of a list (k = "").  A URL is [host, ver, path], read as                *)
(* host/api/v<ver>/<path joined by "/">.                                   *)
(***************************************************************************)
EXTENDS Integers, Sequences, FiniteSets, TLC

VARIABLES
  key, secret, mode,  \* API._key, API._secret_key, API._mode
  headers,            \* _API._HEADERS, the dict every request is sent with
  rec,                \* the __dict__ of the record at hand
  wire,               \* the HTTP requests the last requesting call issued
  ret,                \* what the last call returned or raised
  call,               \* the last call and its arguments
  calledKey, calledSecret, calledMode,  \* the last value each setter took
  issued              \* calledKey and calledSecret when wire was issued

vars == <<key, secret, mode, headers, rec, wire, ret, call,
          calledKey, calledSecret, calledMode, issued>>

\* ------------------------------------------------------------------ bounds
MaxPairs == 2
MaxDepth == 2
MaxList == 2
MaxVersion == 3

\* ------------------------------------------------------------------ values
Str(s) == [t |-> "str", s |-> s, d |-> <<>>]
NoneV == [t |-> "none", s |-> "", d |-> <<>>]
Dict(d) == [t |-> "dict", s |-> "", d |-> d]
List(d) == [t |-> "list", s |-> "", d |-> d]
Entry(k, x) == [k |-> k, x |-> x]

\* str.lower() on the key spellings the model uses.
Lower(k) ==
  CASE k = "ID" -> "id"
    [] k = "UID" -> "uid"
    [] k = "Name" -> "name"
    [] k = "B" -> "b"
    [] k = "Items" -> "items"
    [] k = "CFDI33" -> "cfdi33"
    [] k = "Customer" -> "customer"
    [] OTHER -> k

Keys(d) == {d[i].k : i \in DOMAIN d}
HasKey(d, k) == k \in Keys(d)
Index(d, k) == CHOOSE i \in DOMAIN d : d[i].k = k
Get(d, k) == d[Index(d, k)].x

\* d[k] = v on a dict: an existing key keeps its position, a new one is last.
SetItem(d, k, v) ==
  IF HasKey(d, k) THEN [d EXCEPT ![Index(d, k)].x = v]
  ELSE Append(d, Entry(k, v))

\* d.pop(k) for a key that is present: the dict without it.
Pop(d, k) == SelectSeq(d, LAMBDA e : e.k # k)

\* {k.lower(): v for k, v in d.items()}
RECURSIVE LowerFrom(_, _, _)
LowerFrom(d, i, acc) ==
  IF i > Len(d) THEN acc
  ELSE LowerFrom(d, i + 1, SetItem(acc, Lower(d[i].k), d[i].x))

LowerDict(d) == LowerFrom(d, 1, <<>>)

\* ---------------------------------------------------------------- hydration
\* The dict at a path of (lowercased) keys below the instance's __dict__.
RECURSIVE GetAt(_, _)
GetAt(d, path) ==
  IF path = <<>> THEN d ELSE GetAt(Get(d, Head(path)).d, Tail(path))

RECURSIVE SetAt(_, _, _)
SetAt(d, path, nd) ==
  IF path = <<>> THEN nd
  ELSE LET i == Index(d, Head(path))
       IN [d EXCEPT ![i].x.d = SetAt(d[i].x.d, Tail(path), nd)]

\* for k, v in d.items(): if isinstance(v, dict): d[k] = _DictHelper(d[k])
WrapDicts(d) ==
  [i \in DOMAIN d |->
     IF d[i].x.t = "dict" THEN [d[i] EXCEPT !.x.t = "helper"] ELSE d[i]]

\* ... stack.append(d[k]): the wrapped values, in the dict's order.
RECURSIVE PushFrom(_, _, _)
PushFrom(d, path, i) ==
  IF i > Len(d) THEN <<>>
  ELSE (IF d[i].x.t = "dict" THEN <<Append(path, d[i].k)>> ELSE <<>>)
       \o PushFrom(d, path, i + 1)

\* The loop over the stack.  The first dict is the instance's own __dict__;
\* every later one is a _DictHelper, whose items / clear are looked up on the
\* instance first, so a key "items" or "clear" of the wrapped dict is found
\* instead of the method and the call raises TypeError.
RECURSIVE LowerLoop(_, _)
LowerLoop(tree, stack) ==
  IF stack = <<>> THEN [attrs |-> tree, err |-> ""]
  ELSE LET path == stack[Len(stack)]
           rest == SubSeq(stack, 1, Len(stack) - 1)
           d == GetAt(tree, path)
           helper == path # <<>>
           lowercase == LowerDict(d)
       IN IF helper /\ (HasKey(d, "items") \/ HasKey(d, "clear"))
          THEN [attrs |-> tree, err |-> "TypeError"]
          ELSE IF helper /\ HasKey(lowercase, "items")
          THEN [attrs |-> SetAt(tree, path, lowercase), err |-> "TypeError"]
          ELSE LowerLoop(SetAt(tree, path, WrapDicts(lowercase)),
                         rest \o PushFrom(lowercase, path, 1))

\* if 'id' in params.keys(): self.id = params['id']
CopyId(attrs, params) ==
  IF HasKey(params, "id") THEN SetItem(attrs, "id", Get(params, "id"))
  ELSE attrs

OldKeysClearingParent(attrs, params) == Keys(attrs) \ Keys(params)

\* old_keys = (set(existing_keys) - set(['parent'])) - set(new_keys)
OldKeys(attrs, params) == (Keys(attrs) \ {"parent"}) \ Keys(params)

\* for key in old_keys: self.__dict__[key] = None
ClearOld(attrs, old) ==
  [i \in DOMAIN attrs |->
     IF attrs[i].k \in old THEN [attrs[i] EXCEPT !.x = NoneV] ELSE attrs[i]]

\* for key in new_keys: self.__dict__[key] = params[key]
RECURSIVE AssignFrom(_, _, _)
AssignFrom(attrs, params, i) ==
  IF i > Len(params) THEN attrs
  ELSE AssignFrom(SetItem(attrs, params[i].k, params[i].x), params, i + 1)

\* _initialize_instance on an instance whose __dict__ is attrs: the __dict__
\* it leaves and the error it raises ("" when it returns).
InitializeInstance(attrs, params) ==
  LET a1 == CopyId(attrs, params)
      a2 == ClearOld(a1, OldKeys(a1, params))
      a3 == AssignFrom(a2, params, 1)
  IN LowerLoop(a3, << <<>> >>)

\* ------------------------------------------------------------------- inputs
TopKeys == {"id", "ID", "parent", "Name"}
NestKeys == {"b", "B", "items"}
ChainKeys == NestKeys \cup {"Items", "clear"}
Digit(i) == CASE i = 0 -> "0" [] i = 1 -> "1" [] i = 2 -> "2" [] i = 3 -> "3"
              [] i = 4 -> "4" [] OTHER -> "9"

Injective(s) == \A i, j \in DOMAIN s : s[i] = s[j] => i = j
KeySeqs(K, n) == UNION {{s \in [1..m -> K] : Injective(s)} : m \in 0..n}

\* A mapping with the given keys whose i-th value is the string of i.
Flat(ks) == [i \in DOMAIN ks |-> Entry(ks[i], Str(Digit(i)))]
FlatDicts(K) == {Flat(ks) : ks \in KeySeqs(K, MaxPairs)}

\* One-entry mappings nested to the given depth.
RECURSIVE Chains(_)
Chains(n) ==
  IF n = 1 THEN {<<Entry(k, Str("1"))>> : k \in ChainKeys}
  ELSE {<<Entry("B", Dict(c))>> : c \in Chains(n - 1)}

NestedDicts == FlatDicts(NestKeys) \cup UNION {Chains(n) : n \in 1..MaxDepth}

RecordParams ==
  FlatDicts(TopKeys)
    \cup {<<Entry("Name", Dict(n))>> : n \in NestedDicts}
    \cup {<<Entry("Name", Dict(a)), Entry("ID", Dict(b))>> :
            a \in Chains(1), b \in {<<Entry("B", Str("1"))>>}}

\* ---------------------------------------------------------------- the state
NoUrl == [host |-> "", ver |-> "", path |-> <<>>]
NoResp == [ok |-> FALSE, kind |-> "none", env |-> <<>>]
Ret(out, err, val) ==
  [out |-> out, err |-> err, val |-> val, meta |-> NoResp, url |-> NoUrl,
   msg |-> {}]
Returned(val) == Ret("returned", "", val)
Raised(err, val) == Ret("raised", err, val)

NoCall ==
  [op |-> "init", value |-> "", version |-> 0, method |-> "", raise |-> TRUE,
   params |-> NoneV, resp |-> NoResp, inst |-> <<>>, mode |-> ""]

InitialModeLowercase == "production"

\* self._mode = 'PRODUCTION'
InitialMode == "PRODUCTION"

\* The module as imported: the _HEADERS class attribute and API = _API().
Init ==
  /\ key = "None" /\ secret = "None" /\ mode = InitialMode
  /\ headers = [ctype |-> "application/json", agent |-> "telemetry",
                apikey |-> "", secretkey |-> ""]
  /\ rec = <<>>
  /\ wire = <<>>
  /\ ret = Ret("none", "", NoneV)
  /\ call = NoCall
  /\ calledKey = "unset" /\ calledSecret = "unset" /\ calledMode = "unset"
  /\ issued = [key |-> "unset", secret |-> "unset"]

Session == <<key, secret, mode, headers, calledKey, calledSecret, calledMode>>

\* ------------------------------------------------------------------ records
\* The record at hand exists once a construction has returned.
Constructed ==
  call.op = "refresh" \/ (call.op = "construct" /\ ret.out = "returned")

\* record = _Resource(params): when __init__ raises there is no record.
Construct(params) ==
  LET r == InitializeInstance(<<>>, params)
  IN /\ ~Constructed
     /\ rec' = IF r.err = "" THEN r.attrs ELSE <<>>
     /\ call' = [NoCall EXCEPT !.op = "construct", !.params = Dict(params)]
     /\ ret' = IF r.err = "" THEN Returned(NoneV) ELSE Raised(r.err, NoneV)
     /\ UNCHANGED <<Session, wire, issued>>

\* record._initialize_instance(params) on the record at hand.
Refresh(params) ==
  LET r == InitializeInstance(rec, params)
  IN /\ Constructed
     /\ rec' = r.attrs
     /\ call' = [NoCall EXCEPT !.op = "refresh", !.params = Dict(params)]
     /\ ret' = IF r.err = "" THEN Returned(NoneV) ELSE Raised(r.err, NoneV)
     /\ UNCHANGED <<Session, wire, issued>>

NextRecord ==
  \/ \E p \in RecordParams : Construct(p)
  \/ \E p \in RecordParams : Refresh(p)

SpecRecord == Init /\ [][NextRecord]_vars

\* ------------------------------------------------------------------ session
ALLOWED_MODES == {"SANDBOX", "PRODUCTION"}
SANDBOX_HOST == "http://private-anon-dab239ca03-facturacom.apiary-mock.com"
PRODUCTION_HOST == "https://factura.com"
DEFAULT_VERSION == "3"
\* base(version=None): the argument left out.
NoVersion == -1

KeyValues == {"k1", "k2"}
SecretValues == {"s1", "s2"}
ModeInputs == ALLOWED_MODES \cup {"sandbox", "TEST", ""}
Versions == {NoVersion} \cup 0..MaxVersion

KeyHeaderStale(h, value) == h

\* _API._HEADERS['F-API-KEY'] = value
KeyHeader(h, value) == [h EXCEPT !.apikey = value]

\* _API._HEADERS['F-SECRET-KEY'] = value
SecretHeader(h, value) == [h EXCEPT !.secretkey = value]

\* API.key = value
SetKey(value) ==
  /\ headers' = KeyHeader(headers, value)
  /\ key' = value
  /\ calledKey' = value
  /\ call' = [NoCall EXCEPT !.op = "setKey", !.value = value]
  /\ ret' = Returned(NoneV)
  /\ UNCHANGED <<secret, mode, rec, wire, calledSecret, calledMode, issued>>

\* API.secret_key = value
SetSecret(value) ==
  /\ headers' = SecretHeader(headers, value)
  /\ secret' = value
  /\ calledSecret' = value
  /\ call' = [NoCall EXCEPT !.op = "setSecret", !.value = value]
  /\ ret' = Returned(NoneV)
  /\ UNCHANGED <<key, mode, rec, wire, calledKey, calledMode, issued>>

\* FacturaError({'message': 'Unknown API mode. Please choose between: %s' %
\* ', '.join(_API._ALLOWED_MODES)}): msg is the set of modes the text joins
\* (a set has no order of its own).
UnknownMode == [Raised("FacturaError", NoneV) EXCEPT !.msg = ALLOWED_MODES]

ModeStoredUnchecked(m, value) == value

\* The mode the setter leaves: value when it is allowed, else the old one.
ModeStored(m, value) == IF value \notin ALLOWED_MODES THEN m ELSE value

\* API.mode = value
SetMode(value) ==
  /\ mode' = ModeStored(mode, value)
  /\ ret' = IF value \notin ALLOWED_MODES THEN UnknownMode ELSE Returned(NoneV)
  /\ calledMode' = IF value \notin ALLOWED_MODES THEN calledMode ELSE value
  /\ call' = [NoCall EXCEPT !.op = "setMode", !.value = value]
  /\ UNCHANGED <<key, secret, headers, rec, wire, calledKey, calledSecret, issued>>

Url(host, ver, path) == [host |-> host, ver |-> ver, path |-> path]

BaseFalsyVersion(m, version) ==
  LET v == IF version = NoVersion \/ version = 0 THEN DEFAULT_VERSION
           ELSE Digit(version)
  IN IF m = "SANDBOX" THEN [err |-> "", url |-> Url(SANDBOX_HOST, v, <<>>)]
     ELSE IF m = "PRODUCTION"
     THEN [err |-> "", url |-> Url(PRODUCTION_HOST, v, <<>>)]
     ELSE [err |-> "FacturaError", url |-> NoUrl]

\* API.base(version) when the stored mode is m: the URL, or the error raised.
Base(m, version) ==
  LET v == IF version = NoVersion THEN DEFAULT_VERSION ELSE Digit(version)
  IN IF m = "SANDBOX" THEN [err |-> "", url |-> Url(SANDBOX_HOST, v, <<>>)]
     ELSE IF m = "PRODUCTION"
     THEN [err |-> "", url |-> Url(PRODUCTION_HOST, v, <<>>)]
     ELSE [err |-> "FacturaError", url |-> NoUrl]

\* API.base(version) called by the application.
BaseUrl(version) ==
  LET b == Base(mode, version)
  IN /\ ret' = IF b.err = "" THEN [Returned(NoneV) EXCEPT !.url = b.url]
               ELSE UnknownMode
     /\ call' = [NoCall EXCEPT !.op = "baseUrl", !.version = version]
     /\ UNCHANGED <<Session, rec, wire, issued>>

\* ------------------------------------------------------------------ gateway
\* requests.request(method, url, headers=_API._HEADERS[, data=...]): a GET
\* carries non-empty params as the query string, any other method carries
\* json.dumps(params), of '' when params is None.
Send(method, path, params, h) ==
  [method |-> method,
   url |-> path,
   query |-> IF method = "GET" /\ params # NoneV THEN params.d ELSE <<>>,
   body |-> IF method = "GET" THEN NoneV
            ELSE IF params = NoneV THEN Str("") ELSE params,
   headers |-> h]

StatusFieldResponseFirst(j) ==
  IF HasKey(j, "response") THEN "response"
  ELSE IF HasKey(j, "status") THEN "status" ELSE ""

\* try: j.pop('status') / except KeyError: j.pop('response'): the field that
\* is popped, "" when there is neither.
StatusField(j) ==
  IF HasKey(j, "status") THEN "status"
  ELSE IF HasKey(j, "response") THEN "response" ELSE ""

RespondIgnoringStatus(resp, raise) ==
  IF resp.kind = "invalid" THEN Raised("ValueError", NoneV)
  ELSE IF ~resp.ok THEN Returned(NoneV)
  ELSE IF resp.kind # "object" THEN Raised("TypeError", NoneV)
  ELSE LET f == StatusField(resp.env)
       IN IF f = "" THEN Raised("KeyError", NoneV)
          ELSE [Returned(Dict(Pop(resp.env, f))) EXCEPT !.meta = resp]

\* _make_request from j = json.loads(req.text) on: a body that is no JSON
\* raises before req.ok is read; a JSON array has no pop('status').
Respond(resp, raise) ==
  IF resp.kind = "invalid" THEN Raised("ValueError", NoneV)
  ELSE IF ~resp.ok THEN Returned(NoneV)
  ELSE IF resp.kind # "object" THEN Raised("TypeError", NoneV)
  ELSE LET f == StatusField(resp.env)
       IN IF f = "" THEN Raised("KeyError", NoneV)
          ELSE IF Get(resp.env, f) = Str("success")
          THEN [Returned(Dict(Pop(resp.env, f))) EXCEPT !.meta = resp]
          ELSE IF raise THEN Raised("FacturaError", Dict(Pop(resp.env, f)))
          ELSE Returned(NoneV)

\* cls.__name__.lower(), which quote_plus leaves as it is.
ClassName(cls) == Lower(cls)

\* _Resource._class_url(api_version)
ClassUrl(cls, m, version) ==
  LET b == Base(m, version)
  IN IF b.err # "" THEN b
     ELSE [b EXCEPT !.url.path = <<ClassName(cls)>>]

\* Customer._class_url: API.base(cls.API_VERSION) and the segment 'clients'.
CustomerClassUrl(m) ==
  LET b == Base(m, 1)
  IN IF b.err # "" THEN b ELSE [b EXCEPT !.url.path = <<"clients">>]

Under(u, seg) == IF u.err # "" THEN u ELSE [u EXCEPT !.url.path = Append(@, seg)]

\* CFDI33._list_url, _create_url with API_VERSION = 3
CFDI33ListUrl(m) == Under(ClassUrl("CFDI33", m, 3), "list")
CFDI33CreateUrl(m) == Under(ClassUrl("CFDI33", m, 3), "create")

\* CFDI33._instance_url: self.uid is read after the class URL is built.
CFDI33InstanceUrl(m, inst) ==
  LET c == ClassUrl("CFDI33", m, 3)
  IN IF c.err # "" THEN c
     ELSE IF ~HasKey(inst, "uid") THEN [err |-> "AttributeError", url |-> NoUrl]
     ELSE Under(c, Get(inst, "uid").s)

CFDI33CancelUrl(m, inst) == Under(CFDI33InstanceUrl(m, inst), "cancel")
CFDI33EmailUrl(m, inst) == Under(CFDI33InstanceUrl(m, inst), "email")

\* Customer._list_url, _find_url, _create_url
CustomerListUrl(m) == CustomerClassUrl(m)
CustomerFindUrl(m) == CustomerClassUrl(m)
CustomerCreateUrl(m) == Under(CustomerClassUrl(m), "create")

\* cls(params) inside an operation: the record, or the error of __init__.
Hydrate(cls, v) ==
  IF v.t # "dict" THEN Raised("AttributeError", NoneV)
  ELSE LET r == InitializeInstance(<<>>, v.d)
       IN IF r.err # "" THEN Raised(r.err, NoneV)
          ELSE Returned([t |-> "record", s |-> cls, d |-> r.attrs])

\* [cls(x) for x in data]
RECURSIVE HydrateFrom(_, _, _, _)
HydrateFrom(cls, xs, i, acc) ==
  IF i > Len(xs) THEN Returned(List(acc))
  ELSE LET h == Hydrate(cls, xs[i].x)
       IN IF h.out = "raised" THEN h
          ELSE HydrateFrom(cls, xs, i + 1, Append(acc, Entry("", h.val)))

HydrateAll(cls, data) ==
  IF data.t = "list" THEN HydrateFrom(cls, data.d, 1, <<>>)
  ELSE IF data.t = "dict" /\ data.d = <<>> THEN Returned(List(<<>>))
  ELSE Raised("AttributeError", NoneV)

\* response, j = cls._make_request(...): unpacking None raises TypeError.
Unpacked(r) ==
  IF r.out = "returned" /\ r.val = NoneV THEN Raised("TypeError", NoneV) ELSE r

\* return [cls(x) for x in j['data']]
ListResult(cls, r) ==
  LET u == Unpacked(r)
  IN IF u.out = "raised" THEN u
     ELSE IF ~HasKey(u.val.d, "data") THEN Raised("KeyError", NoneV)
     ELSE HydrateAll(cls, Get(u.val.d, "data"))

\* return cls(j['data'])
OneResult(cls, r) ==
  LET u == Unpacked(r)
  IN IF u.out = "raised" THEN u
     ELSE IF ~HasKey(u.val.d, "data") THEN Raised("KeyError", NoneV)
     ELSE Hydrate(cls, Get(u.val.d, "data"))

\* j.pop('message'); return CFDI33(j)
CFDI33CreateResult(r) ==
  LET u == Unpacked(r)
  IN IF u.out = "raised" THEN u
     ELSE IF ~HasKey(u.val.d, "message") THEN Raised("KeyError", NoneV)
     ELSE Hydrate("CFDI33", Dict(Pop(u.val.d, "message")))

\* self._make_request(...) with the result dropped.
NoResult(r) == IF r.out = "raised" THEN r ELSE Returned(NoneV)

\* A call that builds its URL u and then makes one request; result(r) is what
\* the operation makes of what _make_request returned.  A URL that cannot be
\* built raises before anything is sent.
Requesting(op, method, u, params, raise, resp, inst, res) ==
  /\ wire' = IF u.err # "" THEN <<>>
             ELSE <<Send(method, u.url, params, headers)>>
  /\ ret' = IF u.err # "" THEN Raised(u.err, NoneV) ELSE res
  /\ issued' = [key |-> calledKey, secret |-> calledSecret]
  /\ call' = [NoCall EXCEPT !.op = op, !.method = method, !.raise = raise,
                            !.params = params, !.resp = resp, !.inst = inst,
                            !.mode = mode]
  /\ UNCHANGED <<Session, rec>>

\* _Resource._make_request(method, path, params, _raise)
MakeRequest(method, params, raise, resp) ==
  Requesting("request", method, CFDI33ListUrl(mode), params, raise, resp, <<>>,
             Respond(resp, raise))

CFDI33List(params, resp) ==
  Requesting("CFDI33.list", "GET", CFDI33ListUrl(mode), params, TRUE, resp,
             <<>>, ListResult("CFDI33", Respond(resp, TRUE)))

CFDI33Create(params, resp) ==
  Requesting("CFDI33.create", "POST", CFDI33CreateUrl(mode), params, TRUE,
             resp, <<>>, CFDI33CreateResult(Respond(resp, TRUE)))

CFDI33Cancel(inst, params, resp) ==
  Requesting("CFDI33.cancel", "GET", CFDI33CancelUrl(mode, inst), params,
             TRUE, resp, inst, NoResult(Respond(resp, TRUE)))

CFDI33SendViaEmail(inst, params, resp) ==
  Requesting("CFDI33.send_via_email", "GET", CFDI33EmailUrl(mode, inst),
             params, TRUE, resp, inst, NoResult(Respond(resp, TRUE)))

CustomerList(params, resp) ==
  Requesting("Customer.list", "GET", CustomerListUrl(mode), params, TRUE,
             resp, <<>>, ListResult("Customer", Respond(resp, TRUE)))

CustomerCreate(params, resp) ==
  Requesting("Customer.create", "POST", CustomerCreateUrl(mode), params, TRUE,
             resp, <<>>, OneResult("Customer", Respond(resp, TRUE)))

CustomerUpdate(params, resp) ==
  Requesting("Customer.update", "POST", CustomerCreateUrl(mode), params, TRUE,
             resp, <<>>, OneResult("Customer", Respond(resp, TRUE)))

CustomerFind(params, resp) ==
  Requesting("Customer.find", "GET", CustomerFindUrl(mode), params, TRUE,
             resp, <<>>, OneResult("Customer", Respond(resp, TRUE)))

\* ---------------------------------------------------------- inputs of calls
Methods == {"GET", "POST"}
StatusValues == {"success", "failed"}
OneField(f) == {<<Entry(f, Str(v))>> : v \in StatusValues}
Heads == {<<>>} \cup OneField("status") \cup OneField("response")
BothHeads == {a \o b : a \in OneField("status"), b \in OneField("response")}

\* What the transport hands back: ok is requests' Response.ok; the body is no
\* JSON at all ("invalid"), a JSON array, or a JSON object env.
Bodies(heads, tails) ==
  {[ok |-> TRUE, kind |-> "object", env |-> h \o t] : h \in heads, t \in tails}
    \cup {[ok |-> TRUE, kind |-> k, env |-> <<>>] : k \in {"invalid", "array"}}
NotOk(rs) == {[r EXCEPT !.ok = FALSE] : r \in rs}

\* The replies to an operation: every body on an ok response, and the bodies
\* without a payload on one that is not ok.
Responses(heads, tails) ==
  Bodies(heads, tails) \cup NotOk(Bodies(heads, {<<>>}))

Message == <<Entry("message", Str("bad"))>>
DataRecords ==
  {<<Entry("UID", Str("A1"))>>,
   <<Entry("UID", Str("123")), Entry("Name", Str("Acme"))>>,
   <<Entry("UID", Str("1")), Entry("Items", Dict(<<Entry("items", Str("x"))>>))>>}
DataLists ==
  UNION {{[i \in 1..n |-> Entry("", Dict(f[i]))] : f \in [1..n -> DataRecords]} :
           n \in 0..MaxList}

RequestResponses ==
  Bodies(Heads \cup BothHeads, {Message})
    \cup NotOk(Bodies(Heads \cup BothHeads, {Message}))
ListResponses ==
  Responses(Heads, {<<>>} \cup {<<Entry("data", List(l))>> : l \in DataLists})
OneResponses ==
  Responses(Heads, {<<>>} \cup {<<Entry("data", Dict(d))>> : d \in DataRecords})
CreateResponses ==
  Responses(Heads, {<<>>, Message} \cup {Message \o d : d \in DataRecords})
PlainResponses == Responses(Heads, {<<>>, Message})
SessionResponses ==
  {[ok |-> o, kind |-> "object", env |-> <<Entry("status", Str("success"))>>] :
     o \in BOOLEAN}

OpParams == {Dict(<<>>), Dict(<<Entry("name", Str("Acme"))>>)}
RequestParams == {NoneV, Dict(<<Entry("name", Str("Acme"))>>)}
\* CFDI33({"UID": "u1"}) and CFDI33(), as hydrated.
Instances == {<<Entry("uid", Str("u1"))>>, <<>>}

\* ----------------------------------------------------------- specifications
Next ==
  \/ \E v \in KeyValues : SetKey(v)
  \/ \E v \in SecretValues : SetSecret(v)
  \/ \E v \in ModeInputs : SetMode(v)
  \/ \E v \in Versions : BaseUrl(v)
  \/ \E m \in Methods, p \in OpParams, r \in SessionResponses :
       MakeRequest(m, p, TRUE, r)

Spec == Init /\ [][Next]_vars

NextGateway ==
  \/ \E v \in ModeInputs : SetMode(v)
  \/ \E m \in Methods, p \in RequestParams, b \in BOOLEAN,
        r \in RequestResponses : MakeRequest(m, p, b, r)
  \/ \E p \in OpParams, r \in ListResponses : CFDI33List(p, r)
  \/ \E p \in OpParams, r \in CreateResponses : CFDI33Create(p, r)
  \/ \E i \in Instances, p \in OpParams, r \in PlainResponses :
       CFDI33Cancel(i, p, r)
  \/ \E i \in Instances, p \in OpParams, r \in PlainResponses :
       CFDI33SendViaEmail(i, p, r)
  \/ \E p \in OpParams, r \in ListResponses : CustomerList(p, r)
  \/ \E p \in OpParams, r \in OneResponses : CustomerCreate(p, r)
  \/ \E p \in OpParams, r \in OneResponses : CustomerUpdate(p, r)
  \/ \E p \in OpParams, r \in OneResponses : CustomerFind(p, r)

SpecGateway == Init /\ [][NextGateway]_vars

\* ------------------------------------------------------------------- claims
Valid == {"SANDBOX", "PRODUCTION"}
HostOf(m) ==
  IF m = "SANDBOX"
  THEN "http://private-anon-dab239ca03-facturacom.apiary-mock.com"
  ELSE "https://factura.com"

\* The status an envelope carries: status when present, else response.
Carried(env) ==
  IF \E i \in DOMAIN env : env[i].k = "status" THEN "status"
  ELSE IF \E i \in DOMAIN env : env[i].k = "response" THEN "response"
  ELSE ""
Without(env, f) == SelectSeq(env, LAMBDA e : e.k # f)
Success(resp) ==
  /\ resp.ok /\ resp.kind = "object" /\ Carried(resp.env) # ""
  /\ Get(resp.env, Carried(resp.env)) = Str("success")

\* C1: setMode(v) with v outside {SANDBOX, PRODUCTION} raises the
\* invalid-mode error, whose message lists both valid modes, and leaves the
\* stored mode, key, secret and request headers as they were.
C1_InvalidModeRejected ==
  [][(call'.op = "setMode" /\ call'.value \notin Valid) =>
       /\ ret'.out = "raised" /\ ret'.err = "FacturaError"
       /\ ret'.msg = Valid
       /\ mode' = mode /\ key' = key /\ secret' = secret
       /\ headers' = headers]_vars

C1_Witness ==
  /\ call.op = "setMode" /\ call.value = "TEST" /\ ret.out = "raised"
  /\ key = "k2" /\ secret = "s1" /\ mode = "SANDBOX"

\* C2: after setMode(m), baseUrl() is <host(m)>/api/v3 and baseUrl(version)
\* is <host(m)>/api/v<version>, whatever modes and credentials were set
\* before.
C2_BaseUrl ==
  (call.op = "baseUrl" /\ calledMode \in Valid) =>
    /\ ret.out = "returned"
    /\ ret.url.host = HostOf(calledMode)
    /\ ret.url.ver = (IF call.version = NoVersion THEN "3"
                      ELSE Digit(call.version))
    /\ ret.url.path = <<>>

C2_Witness ==
  /\ call.op = "baseUrl" /\ call.version = 0 /\ calledMode = "SANDBOX"
  /\ key = "k1" /\ ret.out = "returned"

C4_Credentials ==
  /\ \A i \in DOMAIN wire :
       /\ issued.key # "unset" => wire[i].headers.apikey = issued.key
       /\ issued.secret # "unset" => wire[i].headers.secretkey = issued.secret
  /\ calledKey # "unset" => key = calledKey /\ headers.apikey = calledKey
  /\ calledSecret # "unset" =>
       secret = calledSecret /\ headers.secretkey = calledSecret

C4_Witness ==
  /\ Len(wire) = 1 /\ issued.key = "k1" /\ wire[1].headers.apikey = "k1"
  /\ wire[1].headers.secretkey = "s1"
  /\ calledKey = "k2" /\ headers.apikey = "k2"

\* Every key at every depth below a record's attributes is lowercase.
RECURSIVE AllLower(_)
AllLower(d) ==
  \A i \in DOMAIN d :
    /\ Lower(d[i].k) = d[i].k
    /\ d[i].x.t \in {"dict", "helper"} => AllLower(d[i].x.d)

\* A stored value is the input's: the same scalar, or a wrapped mapping in
\* which every key of the input mapping is found, lowercased, with its value.
RECURSIVE Matches(_, _)
Matches(stored, input) ==
  IF input.t = "dict"
  THEN /\ stored.t = "helper"
       /\ \A j \in DOMAIN input.d :
            /\ HasKey(stored.d, Lower(input.d[j].k))
            /\ Matches(Get(stored.d, Lower(input.d[j].k)), input.d[j].x)
  ELSE stored = input

FromMapping(attrs, input) ==
  \A j \in DOMAIN input :
    /\ HasKey(attrs, Lower(input[j].k))
    /\ Matches(Get(attrs, Lower(input[j].k)), input[j].x)

\* C5: a record constructed from any params mapping has only lowercase
\* attribute names and nested keys, holds every input key k as lowercase(k)
\* with the input's value, and has every nested mapping wrapped.
C5_Claim ==
  call.op = "construct" =>
    /\ ret.out = "returned"
    /\ AllLower(rec)
    /\ FromMapping(rec, call.params.d)

\* No mapping, at any depth, has two keys that differ only in letter case.
RECURSIVE NoClashDeep(_)
NoClashDeep(d) ==
  /\ \A i, j \in DOMAIN d : Lower(d[i].k) = Lower(d[j].k) => i = j
  /\ \A i \in DOMAIN d : d[i].x.t = "dict" => NoClashDeep(d[i].x.d)

\* Some mapping nested in d has a key that hides a method the loop calls on
\* its wrapper: items in any letter case, or clear.
RECURSIVE Shadowed(_)
Shadowed(d) ==
  \E i \in DOMAIN d :
    /\ d[i].x.t = "dict"
    /\ \/ \E j \in DOMAIN d[i].x.d :
            Lower(d[i].x.d[j].k) = "items" \/ d[i].x.d[j].k = "clear"
       \/ Shadowed(d[i].x.d)

\* C5, where it fails: construction raises exactly when a nested mapping has
\* such a key, and a record that is constructed from a mapping without case
\* clashes is as C5 says.
C5_ButForShadowing ==
  call.op = "construct" =>
    /\ ret.out = "raised" <=> Shadowed(call.params.d)
    /\ (ret.out = "returned" /\ NoClashDeep(call.params.d)) =>
         AllLower(rec) /\ FromMapping(rec, call.params.d)

LowerKeys(d) == {Lower(k) : k \in Keys(d)}
NoCaseClash(d) ==
  \A i, j \in DOMAIN d : Lower(d[i].k) = Lower(d[j].k) => i = j
Null(attrs, a) == ~HasKey(attrs, a) \/ Get(attrs, a) = NoneV

\* An attribute holds a (top-level) value of the new mapping: the scalar
\* itself, or the wrapper of the mapping.
Holds(stored, input) ==
  IF input.t = "dict"
  THEN stored.t = "helper" /\ LowerKeys(stored.d) = LowerKeys(input.d)
  ELSE stored = input

\* What C6 says of one refresh, from the attributes before to those after.
Refreshed(before, params, after) ==
  /\ \A a \in Keys(before) :
       (a # "parent" /\ a \notin LowerKeys(params)) => Null(after, a)
  /\ (HasKey(before, "parent") /\ "parent" \notin LowerKeys(params)) =>
       HasKey(after, "parent") /\ Get(after, "parent") = Get(before, "parent")
  /\ \A i \in DOMAIN params :
       /\ HasKey(after, Lower(params[i].k))
       /\ Holds(Get(after, Lower(params[i].k)), params[i].x)

\* C6 as stated: a refresh clears every attribute the new mapping does not
\* name (other than parent), keeps an unnamed parent, and leaves every key of
\* the new mapping holding the new mapping's value.
C6_Claim ==
  [][call'.op = "refresh" => Refreshed(rec, call'.params.d, rec')]_vars

\* C6 amended: the same, for a new mapping no two keys of which differ only
\* in letter case (names are compared without regard to case).
C6_Refresh ==
  [][(call'.op = "refresh" /\ NoCaseClash(call'.params.d)) =>
       Refreshed(rec, call'.params.d, rec')]_vars

C6_Witness ==
  /\ call.op = "refresh" /\ Keys(call.params.d) = {"ID"}
  /\ HasKey(rec, "parent") /\ Get(rec, "parent") = Str("2")
  /\ HasKey(rec, "name") /\ Get(rec, "name") = NoneV
  /\ Get(rec, "id") = Str("1")

Ops ==
  {"CFDI33.list", "CFDI33.create", "CFDI33.cancel", "CFDI33.send_via_email",
   "Customer.list", "Customer.create", "Customer.update", "Customer.find"}
ListOps == {"CFDI33.list", "Customer.list"}
RecordOps == Ops \ {"CFDI33.cancel", "CFDI33.send_via_email"}
InstanceOps == {"CFDI33.cancel", "CFDI33.send_via_email"}

StatedMethod(op) ==
  IF op \in {"CFDI33.create", "Customer.create", "Customer.update"}
  THEN "POST" ELSE "GET"
StatedVersion(op) ==
  IF op \in {"Customer.list", "Customer.create", "Customer.update",
             "Customer.find"} THEN "1" ELSE "3"
StatedPath(op, inst) ==
  CASE op = "CFDI33.list" -> <<"cfdi33", "list">>
    [] op = "CFDI33.create" -> <<"cfdi33", "create">>
    [] op = "CFDI33.cancel" -> <<"cfdi33", Get(inst, "uid").s, "cancel">>
    [] op = "CFDI33.send_via_email" -> <<"cfdi33", Get(inst, "uid").s, "email">>
    [] op \in {"Customer.list", "Customer.find"} -> <<"clients">>
    [] OTHER -> <<"clients", "create">>

\* The one request C7 states for the last call.
OneStatedRequest ==
  /\ Len(wire) = 1
  /\ wire[1].method = StatedMethod(call.op)
  /\ wire[1].url = [host |-> HostOf(call.mode), ver |-> StatedVersion(call.op),
                    path |-> StatedPath(call.op, call.inst)]

IsRecordOf(v, data) == v.t = "record" /\ FromMapping(v.d, data.d)

\* C7: every resource operation issues exactly one request, with the method
\* and URL of the operation and the current mode; on a success envelope list
\* returns the records hydrated from data in order and Customer.create the
\* record hydrated from data.
C7_Claim ==
  (call.op \in Ops /\ (call.op \in InstanceOps => HasKey(call.inst, "uid"))) =>
    /\ OneStatedRequest
    /\ (Success(call.resp) /\ HasKey(call.resp.env, "data")) =>
         LET data == Get(call.resp.env, "data")
         IN /\ call.op \in ListOps =>
                 /\ ret.out = "returned" /\ ret.val.t = "list"
                 /\ Len(ret.val.d) = Len(data.d)
                 /\ \A i \in DOMAIN data.d :
                      IsRecordOf(ret.val.d[i].x, data.d[i].x)
            /\ call.op = "Customer.create" =>
                 ret.out = "returned" /\ IsRecordOf(ret.val, data)

\* C7, the part about the request alone.
C7_RequestPart ==
  (call.op \in Ops /\ (call.op \in InstanceOps => HasKey(call.inst, "uid"))) =>
    OneStatedRequest

\* C8 as stated: on a response that is not ok, request() raises nothing and
\* returns nothing, whatever the body.
C8_Claim ==
  (call.op = "request" /\ ~call.resp.ok) =>
    ret.out = "returned" /\ ret.val = NoneV /\ ret.meta = NoResp

\* C8, where it holds: the same for every body that is JSON (an object with
\* or without a status field, or not an object).
C8_NotOkSilent ==
  (call.op = "request" /\ ~call.resp.ok /\ call.resp.kind # "invalid") =>
    ret.out = "returned" /\ ret.val = NoneV /\ ret.meta = NoResp

\* C9: the stored mode is always SANDBOX or PRODUCTION, so baseUrl never
\* raises the invalid-mode error.
C9_ModeValid ==
  /\ mode \in Valid
  /\ call.op = "baseUrl" => ret.out = "returned"

C9_Witness ==
  /\ call.op = "baseUrl" /\ ret.out = "returned" /\ mode = "SANDBOX"
  /\ calledKey = "k2" /\ calledSecret = "s1"

\* C10: list, create, find and update return a record or records only when
\* the one response was ok and carried "success"; in every other case they
\* raise, return no record, and there is still only the one request.
C10_RecordOnlyOnSuccess ==
  call.op \in RecordOps =>
    /\ Len(wire) = 1
    /\ ret.out = "returned" => Success(call.resp)
    /\ ~Success(call.resp) =>
         ret.out = "raised" /\ ret.val.t \notin {"record", "list"}

C10_Witness ==
  /\ call.op = "Customer.create" /\ ~call.resp.ok
  /\ call.resp.kind = "object" /\ Carried(call.resp.env) = "status"
  /\ ret.out = "raised" /\ ret.err = "TypeError" /\ Len(wire) = 1
====
